---- MODULE Spec2Model ----
(***************************************************************************)
(* Order lifecycle engine of magnet-custom: orders, stock reservation,     *)
(* M-Pesa payment submission/verification and custom images, modelled from *)
(* order.py, payment.py, custom_image.py and model.py.                     *)
(*                                                                         *)
(* Every HTTP handler is one action.  A handler runs inside one SQLAlchemy *)
(* session: it either commits all its writes or, on an exception, rolls    *)
(* them back and answers 500.  resp records the answer of the last call.   *)
(***************************************************************************)
EXTENDS Integers, Sequences, FiniteSets, TLC

(* ------------------------------ bounds --------------------------------- *)
MaxOrders == 1
MaxPayments == 1
InitialStock == 2
\* above InitialStock, so that a request may ask for more than there is
MaxQty == 3
MaxBatch == 2
\* cap on the stock a repeated restock may reach
MaxStock == 3
\* cap on the verify calls counted per payment
MaxVerifyCalls == 2
\* requests in flight at once, and what they may create, when interleaved
MaxRaceOrders == 2
MaxRacePayments == 2
\* cap on the files the upload folder holds
MaxFiles == 2

(* --------------------------- seeded catalogue --------------------------- *)
NULL == "NULL"

Users == {"alice", "staff", "admin"}

\* the callers of the sequential specification
Actors == {"alice", "admin"}

Role(u) ==
  CASE u = "admin" -> "ADMIN"
    [] u = "staff" -> "STAFF"
    [] OTHER -> "CUSTOMER"

\* rows of the products table; "p3" is soft-disabled (is_active = False)
Products == {"p1", "p2", "p3"}

\* ids a request may name: the rows above and one id with no row
ProductIds == Products \cup {"px"}

is_active(p) == p # "p3"

\* Product.price, in cents
price(p) ==
  CASE p = "p1" -> 100
    [] p = "p2" -> 250
    [] OTHER -> 300

OrderStatus ==
  {"pending", "confirmed", "processing", "shipped", "delivered", "cancelled",
   "returned"}

\* member values of enum PaymentStatus
PaymentStatus ==
  {"pending", "completed", "paid", "failed", "refunded", "canceled",
   "chargeback", "on_hold"}

\* member names of enum PaymentStatus: PaymentStatus.<name> raises
\* AttributeError for any other name
PaymentStatusNames ==
  {"PENDING", "COMPLETED", "PAID", "FAILED", "REFUNDED", "CANCELED",
   "CHARGEBACK", "ON_HOLD"}

(* ------------------------------- state --------------------------------- *)
VARIABLES
  quantity,      \* Product.quantity, per product row
  orders,        \* orders table: sequence indexed by order id
  order_items,   \* order_items table: set of rows
  next_item_id,  \* next fresh OrderItem id
  payments,      \* payments table: set of rows
  next_payment_id, \* next fresh Payment id
  custom_images, \* custom_images table: set of rows
  files,         \* number of files stored in the upload folder
  verify_calls,  \* per payment: verify calls with outcome 'verified' so far
  resp,          \* the last call and its answer
  reqs           \* requests in flight (used by the interleaved specification)

vars ==
  <<quantity, orders, order_items, next_item_id, payments, next_payment_id,
    custom_images, files, verify_calls, resp, reqs>>

imageVars == <<custom_images, files>>

\* the answer of a call: HTTP code and message, with the caller, the id the
\* call named and, for a verify call or an order update, the status it asked
\* for
Reply(op, code, msg, actor, id, arg) ==
  [op |-> op, code |-> code, msg |-> msg, actor |-> actor, id |-> id,
   arg |-> arg]

Procs == {1, 2}

Idle == [pc |-> "idle"]

Init ==
  /\ quantity = [p \in Products |-> InitialStock]
  /\ orders = <<>>
  /\ order_items = {}
  /\ next_item_id = 1
  /\ payments = {}
  /\ next_payment_id = 1
  /\ verify_calls = <<>>
  /\ custom_images = {}
  /\ files = 0
  /\ resp = Reply("none", 0, "", NULL, 0, NULL)
  /\ reqs = [r \in Procs |-> Idle]

(* ------------------------------ helpers -------------------------------- *)
RECURSIVE SumSeq(_)
SumSeq(s) == IF s = <<>> THEN 0 ELSE Head(s) + SumSeq(Tail(s))

RECURSIVE SumSet(_, _)
\* sum of f[x] over the finite set S
SumSet(f, S) ==
  IF S = {} THEN 0
  ELSE LET x == CHOOSE y \in S : TRUE IN f[x] + SumSet(f, S \ {x})

\* an enum.Enum member never compares equal to a plain string
EnumEqStr(member, str) == FALSE

\* the test is made on the list alone: true of any member
EnumInStrListAnyMember(member, strs) == strs # {}

\* `member in [str, ...]`
EnumInStrList(member, strs) == \E s \in strs : EnumEqStr(member, s)

\* request payloads: order_items lists
ItemSpecs ==
  [product_id : {p \in Products : is_active(p)}, quantity : 0..MaxQty]
    \cup [product_id : {p \in ProductIds : p \notin Products \/ ~is_active(p)},
          quantity : {1}]

Batches == UNION {[1..n -> ItemSpecs] : n \in 0..MaxBatch}

\* Query helpers
OrderIds == 1..Len(orders)

ItemsOf(oid) == {it \in order_items : it.order_id = oid}

\* Order.query.get / filter_by(id=..., user_id=...) for the caller's scope
VisibleOrder(actor, oid, adminSeesAll) ==
  /\ oid \in OrderIds
  /\ \/ adminSeesAll /\ Role(actor) = "ADMIN"
     \/ orders[oid].user_id = actor

(* --------------------------- stock reservation -------------------------- *)
\* the per-item checks of the validation loop; "ok" when the item passes
ItemError(q, it) ==
  CASE it.product_id \notin Products -> "Product not found or inactive"
    [] ~is_active(it.product_id) -> "Product not found or inactive"
    [] it.quantity <= 0 -> "Quantity must be greater than 0"
    [] q[it.product_id] < it.quantity -> "Insufficient stock for product"
    [] OTHER -> "ok"

\* only the first item of the batch is validated
FirstBadFirstOnly(q, batch) ==
  IF batch # <<>> /\ ItemError(q, batch[1]) # "ok" THEN 1 ELSE 0

\* index of the first item the loop rejects, 0 when every item passes
FirstBad(q, batch) ==
  IF \A i \in 1..Len(batch) : ItemError(q, batch[i]) = "ok" THEN 0
  ELSE CHOOSE i \in 1..Len(batch) :
         /\ ItemError(q, batch[i]) # "ok"
         /\ \A j \in 1..(i - 1) : ItemError(q, batch[j]) = "ok"

\* quantity a batch takes from product p
Reserved(batch, p) ==
  SumSeq([i \in 1..Len(batch) |->
            IF batch[i].product_id = p THEN batch[i].quantity ELSE 0])

\* item_data['product'].quantity -= item_data['quantity'], for every item
ReserveStock(q, batch) == [p \in DOMAIN q |-> q[p] - Reserved(batch, p)]

\* item_total = product.price * quantity
ItemTotal(it) == price(it.product_id) * it.quantity

\* the total of the first item alone
BatchTotalFirstOnly(batch) == ItemTotal(batch[1])

\* total_amount += item_total, over the validation loop
BatchTotal(batch) == SumSeq([i \in 1..Len(batch) |-> ItemTotal(batch[i])])

\* the OrderItem rows created for a batch
NewItems(oid, batch, first_id) ==
  {[id |-> first_id + i - 1, order_id |-> oid,
    product_id |-> batch[i].product_id, quantity |-> batch[i].quantity,
    unit_price |-> price(batch[i].product_id),
    total_price |-> ItemTotal(batch[i])] : i \in 1..Len(batch)}

\* quantity the rows in items hold of product p
Held(items, p) ==
  SumSet([it \in items |-> IF it.product_id = p THEN it.quantity ELSE 0],
         items)

\* one unit restored per row, whatever its quantity
RestoreStockOnePerItem(q, items) ==
  [p \in DOMAIN q |->
     q[p] + Cardinality({it \in items : it.product_id = p})]

\* product.quantity += order_item.quantity, for every row in items
RestoreStock(q, items) == [p \in DOMAIN q |-> q[p] + Held(items, p)]

(* ------------------------- OrderResource.post --------------------------- *)
\* customer_complete: customer_name and customer_phone are both filled in
NewOrder(actor, total, ident) ==
  [user_id |-> actor, status |-> "pending", total_amount |-> total,
   approved_by |-> NULL, customer_complete |-> ident]

\* ident: the payload carries both customer_name and customer_phone
OrderPost(actor, batch, ident) ==
  /\ UNCHANGED imageVars
  /\ Len(orders) < MaxOrders
  /\ LET bad == FirstBad(quantity, batch)
         oid == Len(orders) + 1
     IN
     IF batch = <<>> THEN
       /\ resp' = Reply("order_post", 400,
                        "Order must contain at least one item", actor, 0, NULL)
       /\ UNCHANGED <<quantity, orders, order_items, next_item_id>>
     ELSE IF bad # 0 THEN
       /\ resp' = Reply("order_post", 400, ItemError(quantity, batch[bad]),
                        actor, 0, NULL)
       /\ UNCHANGED <<quantity, orders, order_items, next_item_id>>
     ELSE
       /\ orders' = Append(orders, NewOrder(actor, BatchTotal(batch), ident))
       /\ order_items' = order_items \cup NewItems(oid, batch, next_item_id)
       /\ next_item_id' = next_item_id + Len(batch)
       /\ quantity' = ReserveStock(quantity, batch)
       /\ resp' = Reply("order_post", 201, "Order created successfully",
                        actor, oid, NULL)
  /\ UNCHANGED <<payments, next_payment_id, verify_calls, reqs>>

(* ------------------------- OrderResource.delete ------------------------- *)
OrderDelete(actor, oid) ==
  /\ UNCHANGED imageVars
  /\ IF ~VisibleOrder(actor, oid, TRUE) THEN
       /\ resp' = Reply("order_delete", 404, "Order not found", actor, oid, NULL)
       /\ UNCHANGED <<quantity, orders>>
     ELSE IF orders[oid].status \in {"delivered", "cancelled"} THEN
       /\ resp' = Reply("order_delete", 400,
                        "Cannot cancel order in current status", actor, oid, NULL)
       /\ UNCHANGED <<quantity, orders>>
     ELSE
       /\ quantity' = IF orders[oid].status # "cancelled"
                      THEN RestoreStock(quantity, ItemsOf(oid))
                      ELSE quantity
       /\ orders' = [orders EXCEPT ![oid].status = "cancelled"]
       /\ resp' = Reply("order_delete", 200, "Order cancelled successfully",
                        actor, oid, NULL)
       /\ \A p \in Products : quantity'[p] <= MaxStock
  /\ UNCHANGED
       <<order_items, next_item_id, payments, next_payment_id, verify_calls,
         reqs>>

(* --------------------- OrderStatusResource.put -------------------------- *)
\* payload "status" values: NULL stands for a payload without the key
StatusInputs == OrderStatus \cup {"bogus", NULL}

OrderStatusPut(actor, oid, status) ==
  /\ UNCHANGED imageVars
  /\ IF Role(actor) # "ADMIN" THEN
       /\ resp' = Reply("order_status_put", 403,
                        "Only admins can update order status", actor, oid, NULL)
       /\ UNCHANGED orders
     ELSE IF oid \notin OrderIds THEN
       /\ resp' = Reply("order_status_put", 404, "Order not found", actor, oid, NULL)
       /\ UNCHANGED orders
     ELSE IF status = NULL THEN
       /\ resp' = Reply("order_status_put", 400, "Status is required",
                        actor, oid, NULL)
       /\ UNCHANGED orders
     ELSE IF status \notin OrderStatus THEN
       /\ resp' = Reply("order_status_put", 400, "Invalid status value",
                        actor, oid, NULL)
       /\ UNCHANGED orders
     ELSE
       /\ orders' =
            [orders EXCEPT
               ![oid].status = status,
               ![oid].approved_by =
                 IF status \in {"confirmed", "processing"}
                    /\ orders[oid].status = "pending"
                 THEN actor ELSE @]
       /\ resp' = Reply("order_status_put", 200, "Order status updated",
                        actor, oid, NULL)
  /\ UNCHANGED
       <<quantity, order_items, next_item_id, payments, next_payment_id,
         verify_calls, reqs>>

(* -------------------------- OrderResource.put --------------------------- *)
\* the payload's status is applied for any caller
MaySetStatusAnyCaller(actor, status) == status # NULL

\* `if "status" in data and user.role == UserRole.ADMIN`
MaySetStatus(actor, status) == status # NULL /\ Role(actor) = "ADMIN"

\* the other keys of an update payload: none, order_notes alone, customer
\* fields that leave both filled in, customer fields that leave one empty
OtherInputs == {NULL, "notes", "complete", "incomplete"}

\* the second `def put` of the class body replaces the first one
OrderPut(actor, oid, status, other) ==
  /\ UNCHANGED imageVars
  /\ IF ~VisibleOrder(actor, oid, TRUE) THEN
       /\ resp' = Reply("order_put", 404, "Order not found", actor, oid, NULL)
       /\ UNCHANGED orders
     ELSE IF /\ orders[oid].status \in {"shipped", "delivered", "cancelled"}
             /\ Role(actor) # "ADMIN" THEN
       /\ resp' = Reply("order_put", 400,
                        "Cannot update order in current status", actor, oid, NULL)
       /\ UNCHANGED orders
     ELSE IF status = NULL /\ other = NULL THEN
       /\ resp' = Reply("order_put", 400, "No data provided", actor, oid, NULL)
       /\ UNCHANGED orders
     ELSE IF MaySetStatus(actor, status) /\ status \notin OrderStatus THEN
       /\ resp' = Reply("order_put", 400, "Invalid status value", actor, oid,
                        status)
       /\ UNCHANGED orders
     ELSE
       /\ orders' =
            [orders EXCEPT
               ![oid].status = IF MaySetStatus(actor, status) THEN status ELSE @,
               ![oid].approved_by =
                 IF MaySetStatus(actor, status)
                    /\ status \in {"confirmed", "processing"}
                 THEN actor ELSE @,
               ![oid].customer_complete =
                 CASE other = "complete" -> TRUE
                   [] other = "incomplete" -> FALSE
                   [] OTHER -> @]
       /\ resp' = Reply("order_put", 200, "Order updated successfully",
                        actor, oid, status)
  /\ UNCHANGED
       <<quantity, order_items, next_item_id, payments, next_payment_id,
         verify_calls, reqs>>

(* ------------------------- OrderResource.patch -------------------------- *)
RECURSIVE PatchAdd(_, _)
\* the add loop: each item is checked against the stock the earlier items
\* of the same request have already debited
PatchAdd(q, batch) ==
  IF batch = <<>> THEN [err |-> "ok", q |-> q]
  ELSE LET it == Head(batch)
           e == ItemError(q, it)
       IN IF e # "ok" THEN [err |-> e, q |-> q]
          ELSE PatchAdd([q EXCEPT ![it.product_id] = @ - it.quantity],
                        Tail(batch))

PatchActions == {"add", "remove", NULL}

\* order_items lists of an item-add request
PatchBatches ==
  {b \in Batches : \A i \in 1..Len(b) : b[i].product_id \in {"p1", "p3"}}

OrderPatch(actor, oid, action, batch, item_ids) ==
  /\ UNCHANGED imageVars
  /\ IF ~VisibleOrder(actor, oid, FALSE) THEN
       /\ resp' = Reply("order_patch", 404, "Order not found or access denied",
                        actor, oid, NULL)
       /\ UNCHANGED <<quantity, orders, order_items, next_item_id>>
     ELSE IF ~EnumInStrList(orders[oid].status, {"draft", "pending"}) THEN
       /\ resp' = Reply("order_patch", 400,
                        "Cannot modify order items with status", actor, oid, NULL)
       /\ UNCHANGED <<quantity, orders, order_items, next_item_id>>
     ELSE IF action = NULL THEN
       /\ resp' = Reply("order_patch", 400, "No data provided", actor, oid, NULL)
       /\ UNCHANGED <<quantity, orders, order_items, next_item_id>>
     ELSE IF action = "add" THEN
       LET r == PatchAdd(quantity, batch) IN
       IF r.err # "ok" THEN
         /\ resp' = Reply("order_patch", 400, r.err, actor, oid, NULL)
         /\ UNCHANGED <<quantity, orders, order_items, next_item_id>>
       ELSE
         /\ quantity' = r.q
         /\ order_items' = order_items \cup NewItems(oid, batch, next_item_id)
         /\ next_item_id' = next_item_id + Len(batch)
         /\ orders' = [orders EXCEPT
                         ![oid].total_amount = @ + BatchTotal(batch)]
         /\ resp' = Reply("order_patch", 200, "Order items added successfully",
                          actor, oid, NULL)
     ELSE
       LET gone == {it \in ItemsOf(oid) : it.id \in item_ids} IN
       /\ quantity' = RestoreStock(quantity, gone)
       /\ order_items' = order_items \ gone
       /\ orders' = [orders EXCEPT
                       ![oid].total_amount =
                         @ - SumSet([it \in gone |-> it.total_price], gone)]
       /\ UNCHANGED next_item_id
       /\ resp' = Reply("order_patch", 200, "Order items removed successfully",
                        actor, oid, NULL)
  /\ UNCHANGED <<payments, next_payment_id, verify_calls, reqs>>

(* ------------------------- PaymentResource.post ------------------------- *)
\* rows Payment.query.filter_by(order_id=...) matches
PaymentsOf(oid) == {pm \in payments : pm.order_id = oid}

NewPayment(pid, oid, amount) ==
  [id |-> pid, order_id |-> oid, amount |-> amount, status |-> "pending"]

\* only cancelled orders are refused
NotPayableCancelledOnly(status) == status = "cancelled"

\* `order.status in [OrderStatus.CANCELLED, OrderStatus.DELIVERED]`
NotPayable(status) == status \in {"cancelled", "delivered"}

\* the checks made after the lookup of an existing payment, on the rows
\* that lookup saw: the answer of a refusal, or "ok"
PaymentPostCheck(existing, code_ok, phone_ok) ==
  IF existing # {} /\ "VERIFIED" \notin PaymentStatusNames THEN
    [code |-> 500, msg |-> "AttributeError: VERIFIED"]
  ELSE IF \E pm \in existing : pm.status = "verified" THEN
    [code |-> 400, msg |-> "Payment already verified for this order"]
  ELSE IF \E pm \in existing : pm.status = "pending" THEN
    [code |-> 400,
     msg |-> "Payment already submitted and pending verification"]
  ELSE IF ~code_ok THEN
    [code |-> 400, msg |-> "Invalid M-Pesa code format"]
  ELSE IF ~phone_ok THEN
    [code |-> 400, msg |-> "Invalid phone number format"]
  ELSE [code |-> 201, msg |-> "ok"]

PaymentPost(actor, oid, code_ok, phone_ok) ==
  /\ UNCHANGED imageVars
  /\ IF ~VisibleOrder(actor, oid, TRUE) THEN
       /\ resp' = Reply("payment_post", 404, "Order not found", actor, oid,
                        NULL)
       /\ UNCHANGED <<payments, next_payment_id, verify_calls>>
     ELSE IF NotPayable(orders[oid].status) THEN
       /\ resp' = Reply("payment_post", 400,
                        "Cannot make payment for order in current status",
                        actor, oid, NULL)
       /\ UNCHANGED <<payments, next_payment_id, verify_calls>>
     ELSE
       LET chk == PaymentPostCheck(PaymentsOf(oid), code_ok, phone_ok) IN
       IF chk.code # 201 THEN
         /\ resp' = Reply("payment_post", chk.code, chk.msg, actor, oid,
                          NULL)
         /\ UNCHANGED <<payments, next_payment_id, verify_calls>>
       ELSE
         /\ Cardinality(payments) < MaxPayments
         /\ payments' = payments \cup
              {NewPayment(next_payment_id, oid, orders[oid].total_amount)}
         /\ next_payment_id' = next_payment_id + 1
         /\ verify_calls' = verify_calls @@ (next_payment_id :> 0)
         /\ resp' = Reply("payment_post", 201,
                          "M-Pesa code submitted successfully", actor, oid, NULL)
  /\ UNCHANGED <<quantity, orders, order_items, next_item_id, reqs>>

(* ------------------- PaymentVerificationResource.put -------------------- *)
\* payload "status" values: NULL stands for a payload without the key
VerifyInputs == {"verified", "rejected", "paid", "failed", NULL}

PaymentIds == {pm.id : pm \in payments}

PaymentRow(pid) == CHOOSE pm \in payments : pm.id = pid

\* the status transition written between the role checks and the commit:
\* the answer and the tables as the handler leaves them
VerifyApply(actor, pid, status) ==
  IF status \notin PaymentStatus THEN
    \* PaymentStatus(value) raises ValueError
    [code |-> 400, msg |-> "Invalid status value", payments |-> payments,
     orders |-> orders]
  ELSE IF ~({"VERIFIED", "REJECTED"} \subseteq PaymentStatusNames) THEN
    \* PaymentStatus.VERIFIED raises AttributeError: rollback
    [code |-> 500, msg |-> "AttributeError: VERIFIED", payments |-> payments,
     orders |-> orders]
  ELSE IF status \notin {"verified", "rejected"} THEN
    [code |-> 400, msg |-> "Invalid status. Only 'verified' or 'rejected' allowed",
     payments |-> payments, orders |-> orders]
  ELSE
    LET pm == PaymentRow(pid)
        oid == pm.order_id
    IN
    [code |-> 200, msg |-> "Payment status updated",
     payments |-> (payments \ {pm}) \cup {[pm EXCEPT !.status = status]},
     orders |->
       IF status = "verified" /\ oid \in OrderIds
          /\ orders[oid].status = "pending"
       THEN [orders EXCEPT ![oid].status = "confirmed",
                           ![oid].approved_by = actor]
       ELSE orders]

PaymentVerificationPut(actor, pid, status) ==
  /\ UNCHANGED imageVars
  /\ IF Role(actor) # "ADMIN" THEN
       /\ resp' = Reply("payment_verify", 403,
                        "Only admins can verify payments", actor, pid, status)
       /\ UNCHANGED <<payments, orders>>
     ELSE IF pid \notin PaymentIds THEN
       /\ resp' = Reply("payment_verify", 404, "Payment not found", actor, pid, status)
       /\ UNCHANGED <<payments, orders>>
     ELSE IF status = NULL THEN
       /\ resp' = Reply("payment_verify", 400, "Status is required", actor, pid, status)
       /\ UNCHANGED <<payments, orders>>
     ELSE
       LET r == VerifyApply(actor, pid, status) IN
       /\ resp' = Reply("payment_verify", r.code, r.msg, actor, pid, status)
       /\ payments' = r.payments
       /\ orders' = r.orders
  /\ verify_calls' =
       IF Role(actor) = "ADMIN" /\ pid \in PaymentIds /\ status = "verified"
       THEN [verify_calls EXCEPT ![pid] = @ + 1]
       ELSE verify_calls
  /\ \A q \in DOMAIN verify_calls' : verify_calls'[q] <= MaxVerifyCalls
  /\ UNCHANGED <<quantity, order_items, next_item_id, next_payment_id, reqs>>

(* ---------------------- CustomImageResource.post ------------------------ *)
\* payload order_item_id values: -1 stands for a payload without the key,
\* 0 for an id with no row
ItemIdInputs == -1..(MaxOrders * MaxBatch)

ItemIds == {it.id : it \in order_items}

ItemRow(iid) == CHOOSE it \in order_items : it.id = iid

\* OrderItem.query.get / join(Order) filtered by the caller's scope
VisibleItem(actor, iid) ==
  /\ iid \in ItemIds
  /\ \/ Role(actor) = "ADMIN"
     \/ orders[ItemRow(iid).order_id].user_id = actor

\* CustomImage(order_item_id=..., product_id=..., image_url=..., image_name=...):
\* the columns the constructor is not given keep their defaults
NewCustomImage(iid, pid) ==
  [id |-> Cardinality(custom_images) + 1, order_item_id |-> iid,
   product_id |-> pid, user_id |-> NULL, image_name |-> "upload",
   approval_status |-> "pending", approved_by |-> NULL]

\* the NOT NULL constraints of the custom_images table
CustomImageInsertable(row) == row.user_id # NULL

CustomImagePost(actor, image_ok, iid, pid) ==
  /\ files < MaxFiles
  /\ IF ~image_ok THEN
       /\ resp' = Reply("image_post", 400, "No image data provided", actor, 0,
                        NULL)
       /\ UNCHANGED <<custom_images, files>>
     ELSE
       \* the file is written before the request is validated
       /\ files' = files + 1
       /\ IF iid = -1 THEN
            /\ resp' = Reply("image_post", 400, "Missing field: order_item_id",
                             actor, 0, NULL)
            /\ UNCHANGED custom_images
          ELSE IF ~VisibleItem(actor, iid) THEN
            /\ resp' = Reply("image_post", 404, "Order item not found", actor,
                             iid, NULL)
            /\ UNCHANGED custom_images
          ELSE IF \E im \in custom_images : im.order_item_id = iid THEN
            /\ resp' = Reply("image_post", 400,
                             "Custom image already exists for this order item",
                             actor, iid, NULL)
            /\ UNCHANGED custom_images
          ELSE IF pid # NULL /\ pid \notin Products THEN
            /\ resp' = Reply("image_post", 404, "Product not found", actor,
                             iid, NULL)
            /\ UNCHANGED custom_images
          ELSE IF ~CustomImageInsertable(NewCustomImage(iid, pid)) THEN
            \* IntegrityError at commit: rollback
            /\ resp' = Reply("image_post", 500, "IntegrityError: user_id",
                             actor, iid, NULL)
            /\ UNCHANGED custom_images
          ELSE
            /\ custom_images' = custom_images \cup {NewCustomImage(iid, pid)}
            /\ resp' = Reply("image_post", 201,
                             "Custom image uploaded successfully", actor, iid,
                             NULL)
  /\ UNCHANGED <<quantity, orders, order_items, next_item_id, payments,
                 next_payment_id, verify_calls, reqs>>

(* ------------------- CustomImageApprovalResource.put -------------------- *)
ImageIds == {im.id : im \in custom_images}

ImageRow(image_id) == CHOOSE im \in custom_images : im.id = image_id

\* payload product_id values: NULL stands for a payload without the key,
\* "" for a falsy value
ApprovalProductInputs == {NULL, "", "p1", "px"}

\* payload image_name values: NULL stands for a payload without the key
ApprovalNameInputs == {NULL, "renamed"}

\* the handler assigns product_id and image_name and commits; it reads and
\* writes no other column and touches no file
CustomImageApprovalPut(actor, image_id, pid, name) ==
  /\ IF Role(actor) # "ADMIN" THEN
       /\ resp' = Reply("image_approve", 403,
                        "Only admins can approve custom images", actor,
                        image_id, NULL)
       /\ UNCHANGED custom_images
     ELSE IF image_id \notin ImageIds THEN
       /\ resp' = Reply("image_approve", 404, "Custom image not found", actor,
                        image_id, NULL)
       /\ UNCHANGED custom_images
     ELSE IF pid = NULL /\ name = NULL THEN
       /\ resp' = Reply("image_approve", 400, "No data provided", actor,
                        image_id, NULL)
       /\ UNCHANGED custom_images
     ELSE IF pid \notin {NULL, ""} /\ pid \notin Products THEN
       /\ resp' = Reply("image_approve", 400, "Product not found", actor,
                        image_id, NULL)
       /\ UNCHANGED custom_images
     ELSE
       LET im == ImageRow(image_id)
           im2 == [im EXCEPT
                     !.product_id = IF pid = NULL THEN @
                                    ELSE IF pid = "" THEN NULL ELSE pid,
                     !.image_name = IF name = NULL THEN @ ELSE name]
       IN
       /\ custom_images' = (custom_images \ {im}) \cup {im2}
       /\ resp' = Reply("image_approve", 200,
                        "Custom image approved and product assigned successfully",
                        actor, image_id, NULL)
  /\ UNCHANGED <<files, quantity, orders, order_items, next_item_id, payments,
                 next_payment_id, verify_calls, reqs>>

(* ------------------- handlers as interleaved requests ------------------- *)
(* Two requests served at once: each runs in its own session, reads the    *)
(* rows it needs, and writes at its commit.  A request's reads and its      *)
(* commit are separate steps, so another request may commit between them.   *)

\* order_items lists of the interleaved creations: one item each
RaceBatches == {b \in Batches : Len(b) = 1}

InFlight(kind) == {r \in Procs : reqs[r].pc = kind}

\* OrderResource.post up to the end of its validation loop: the products
\* are loaded into the session with the stock they have now
RaceOrderPostRead(r, actor, batch) ==
  /\ UNCHANGED imageVars
  /\ reqs[r] = Idle
  /\ Len(orders) + Cardinality(InFlight("order_post")) < MaxRaceOrders
  /\ LET bad == FirstBad(quantity, batch) IN
     IF bad # 0 THEN
       /\ resp' = Reply("order_post", 400, ItemError(quantity, batch[bad]),
                        actor, 0, NULL)
       /\ UNCHANGED reqs
     ELSE
       /\ reqs' = [reqs EXCEPT ![r] = [pc |-> "order_post", actor |-> actor,
                                       batch |-> batch, snap |-> quantity]]
       /\ UNCHANGED resp
  /\ UNCHANGED <<quantity, orders, order_items, next_item_id, payments,
                 next_payment_id, verify_calls>>

\* the UPDATE of a loaded product writes the value computed in the session;
\* products the request did not touch are not written
CommitStock(q, snap, batch) ==
  [p \in DOMAIN q |->
     IF Reserved(batch, p) # 0 THEN ReserveStock(snap, batch)[p] ELSE q[p]]

\* OrderResource.post from the insert of the order to db.session.commit()
RaceOrderPostCommit(r) ==
  /\ UNCHANGED imageVars
  /\ reqs[r].pc = "order_post"
  /\ LET rq == reqs[r]
         oid == Len(orders) + 1
     IN
     /\ orders' = Append(orders, NewOrder(rq.actor, BatchTotal(rq.batch), TRUE))
     /\ order_items' = order_items \cup NewItems(oid, rq.batch, next_item_id)
     /\ next_item_id' = next_item_id + Len(rq.batch)
     /\ quantity' = CommitStock(quantity, rq.snap, rq.batch)
     /\ resp' = Reply("order_post", 201, "Order created successfully",
                      rq.actor, oid, NULL)
  /\ reqs' = [reqs EXCEPT ![r] = Idle]
  /\ UNCHANGED <<payments, next_payment_id, verify_calls>>

\* PaymentResource.post up to its validation of the payload: the order and
\* the existing payments are read now
RacePaymentPostRead(r, actor, oid, code_ok, phone_ok) ==
  /\ UNCHANGED imageVars
  /\ reqs[r] = Idle
  /\ Cardinality(payments) + Cardinality(InFlight("payment_post"))
       < MaxRacePayments
  /\ IF ~VisibleOrder(actor, oid, TRUE) THEN
       /\ resp' = Reply("payment_post", 404, "Order not found", actor, oid,
                        NULL)
       /\ UNCHANGED reqs
     ELSE IF NotPayable(orders[oid].status) THEN
       /\ resp' = Reply("payment_post", 400,
                        "Cannot make payment for order in current status",
                        actor, oid, NULL)
       /\ UNCHANGED reqs
     ELSE
       LET chk == PaymentPostCheck(PaymentsOf(oid), code_ok, phone_ok) IN
       IF chk.code # 201 THEN
         /\ resp' = Reply("payment_post", chk.code, chk.msg, actor, oid,
                          NULL)
         /\ UNCHANGED reqs
       ELSE
         /\ reqs' = [reqs EXCEPT
                       ![r] = [pc |-> "payment_post", actor |-> actor,
                               oid |-> oid,
                               amount |-> orders[oid].total_amount]]
         /\ UNCHANGED resp
  /\ UNCHANGED <<quantity, orders, order_items, next_item_id, payments,
                 next_payment_id, verify_calls>>

\* PaymentResource.post: db.session.add(payment); db.session.commit()
RacePaymentPostCommit(r) ==
  /\ UNCHANGED imageVars
  /\ reqs[r].pc = "payment_post"
  /\ LET rq == reqs[r] IN
     /\ payments' = payments \cup
          {NewPayment(next_payment_id, rq.oid, rq.amount)}
     /\ next_payment_id' = next_payment_id + 1
     /\ verify_calls' = verify_calls @@ (next_payment_id :> 0)
     /\ resp' = Reply("payment_post", 201,
                      "M-Pesa code submitted successfully", rq.actor, rq.oid,
                      NULL)
  /\ reqs' = [reqs EXCEPT ![r] = Idle]
  /\ UNCHANGED <<quantity, orders, order_items, next_item_id>>

\* verify requests in flight for payment pid with outcome 'verified'
VerifyingNow(pid) ==
  {q \in Procs : /\ reqs[q].pc = "payment_verify" /\ reqs[q].pid = pid
                 /\ reqs[q].status = "verified"}

\* PaymentVerificationResource.put up to the parse of the payload: the role
\* check and Payment.query.get.  overlap records that another verify call
\* for the same payment was in flight together with this one
RaceVerifyRead(r, actor, pid, status) ==
  /\ UNCHANGED imageVars
  /\ reqs[r] = Idle
  /\ IF Role(actor) # "ADMIN" THEN
       /\ resp' = Reply("payment_verify", 403,
                        "Only admins can verify payments", actor, pid, status)
       /\ UNCHANGED <<reqs, verify_calls>>
     ELSE IF pid \notin PaymentIds THEN
       /\ resp' = Reply("payment_verify", 404, "Payment not found", actor,
                        pid, status)
       /\ UNCHANGED <<reqs, verify_calls>>
     ELSE IF status = NULL THEN
       /\ resp' = Reply("payment_verify", 400, "Status is required", actor,
                        pid, status)
       /\ UNCHANGED <<reqs, verify_calls>>
     ELSE
       LET both == status = "verified" /\ VerifyingNow(pid) # {} IN
       /\ reqs' =
            [q \in Procs |->
               IF q = r THEN [pc |-> "payment_verify", actor |-> actor,
                              pid |-> pid, status |-> status,
                              overlap |-> both]
               ELSE IF both /\ q \in VerifyingNow(pid)
               THEN [reqs[q] EXCEPT !.overlap = TRUE]
               ELSE reqs[q]]
       /\ verify_calls' =
            IF status = "verified"
            THEN [verify_calls EXCEPT ![pid] = @ + 1]
            ELSE verify_calls
       /\ verify_calls'[pid] <= MaxVerifyCalls
       /\ UNCHANGED resp
  /\ UNCHANGED <<quantity, orders, order_items, next_item_id, payments,
                 next_payment_id>>

\* PaymentVerificationResource.put from the conversion of the status to
\* db.session.commit(): the order is loaded here
RaceVerifyFinish(r) ==
  /\ UNCHANGED imageVars
  /\ reqs[r].pc = "payment_verify"
  /\ LET rq == reqs[r]
         a == VerifyApply(rq.actor, rq.pid, rq.status)
     IN
     /\ resp' = Reply("payment_verify", a.code, a.msg, rq.actor, rq.pid,
                      rq.status)
     /\ payments' = a.payments
     /\ orders' = a.orders
  /\ reqs' = [reqs EXCEPT ![r] = Idle]
  /\ UNCHANGED <<quantity, order_items, next_item_id, next_payment_id,
                 verify_calls>>

(* ---------------------------- specification ----------------------------- *)
Next ==
  \/ \E actor \in Actors, batch \in Batches : OrderPost(actor, batch, TRUE)
  \/ \E actor \in Actors, oid \in 1..MaxOrders : OrderDelete(actor, oid)
  \/ \E actor \in Actors, oid \in 1..MaxOrders, status \in StatusInputs :
       OrderStatusPut(actor, oid, status)
  \/ \E actor \in Actors, oid \in 1..MaxOrders, status \in StatusInputs,
        other \in {NULL, "notes"} : OrderPut(actor, oid, status, other)
  \/ \E actor \in Actors, oid \in 1..MaxOrders, action \in PatchActions :
       \E batch \in (IF action = "add" THEN PatchBatches ELSE {<<>>}),
          item_ids \in (IF action = "remove" THEN {{}, {1}} ELSE {{}}) :
         OrderPatch(actor, oid, action, batch, item_ids)
  \/ \E actor \in Actors, oid \in 1..MaxOrders, code_ok \in BOOLEAN,
        phone_ok \in BOOLEAN : PaymentPost(actor, oid, code_ok, phone_ok)
  \/ \E actor \in Actors, pid \in 1..MaxPayments, status \in VerifyInputs :
       PaymentVerificationPut(actor, pid, status)

Spec == Init /\ [][Next]_vars

NextRace ==
  \/ \E r \in Procs, actor \in Actors, batch \in RaceBatches :
       RaceOrderPostRead(r, actor, batch)
  \/ \E r \in Procs : RaceOrderPostCommit(r)
  \/ \E r \in Procs, actor \in Actors, oid \in 1..MaxRaceOrders,
        code_ok \in BOOLEAN, phone_ok \in BOOLEAN :
       RacePaymentPostRead(r, actor, oid, code_ok, phone_ok)
  \/ \E r \in Procs : RacePaymentPostCommit(r)

SpecRace == Init /\ [][NextRace]_vars

\* verify calls served at once, on the orders and payments made before
NextVerifyRace ==
  \/ \E actor \in Actors, batch \in Batches : OrderPost(actor, batch, TRUE)
  \/ \E actor \in Actors, oid \in 1..MaxOrders, code_ok \in BOOLEAN,
        phone_ok \in BOOLEAN : PaymentPost(actor, oid, code_ok, phone_ok)
  \/ \E r \in Procs, actor \in Actors, pid \in 1..MaxPayments,
        status \in VerifyInputs : RaceVerifyRead(r, actor, pid, status)
  \/ \E r \in Procs : RaceVerifyFinish(r)

SpecVerifyRace == Init /\ [][NextVerifyRace]_vars

\* orders placed and updated with or without customer identification
NextDraft ==
  \/ \E actor \in Actors, batch \in RaceBatches, ident \in BOOLEAN :
       OrderPost(actor, batch, ident)
  \/ \E actor \in Actors, oid \in 1..MaxOrders, status \in StatusInputs,
        other \in OtherInputs : OrderPut(actor, oid, status, other)

SpecDraft == Init /\ [][NextDraft]_vars

\* the staff operations, called by users of every role
NextRoles ==
  \/ \E actor \in Actors, batch \in RaceBatches : OrderPost(actor, batch, TRUE)
  \/ \E actor \in Actors, oid \in 1..MaxOrders, code_ok \in BOOLEAN,
        phone_ok \in BOOLEAN : PaymentPost(actor, oid, code_ok, phone_ok)
  \/ \E actor \in Users, oid \in 1..MaxOrders, status \in StatusInputs :
       OrderStatusPut(actor, oid, status)
  \/ \E actor \in Users, pid \in 1..MaxPayments, status \in VerifyInputs :
       PaymentVerificationPut(actor, pid, status)
  \/ \E actor \in Users, image_id \in 1..MaxFiles,
        pid \in ApprovalProductInputs, name \in ApprovalNameInputs :
       CustomImageApprovalPut(actor, image_id, pid, name)

SpecRoles == Init /\ [][NextRoles]_vars

NextImage ==
  \/ \E actor \in Actors, batch \in Batches : OrderPost(actor, batch, TRUE)
  \/ \E actor \in Users, image_ok \in BOOLEAN, iid \in ItemIdInputs,
        pid \in {NULL, "p1", "px"} :
       CustomImagePost(actor, image_ok, iid, pid)
  \/ \E actor \in Users, image_id \in 1..MaxFiles,
        pid \in ApprovalProductInputs, name \in ApprovalNameInputs :
       CustomImageApprovalPut(actor, image_id, pid, name)

SpecImage == Init /\ [][NextImage]_vars

(* ------------------------------ properties ------------------------------ *)
\* the error kind of an answer, by the message the handler gives
ErrorKind(r) ==
  CASE r.code \in {200, 201} -> "none"
    [] r.code = 403 -> "Forbidden"
    [] r.code = 404 -> "NotFound"
    [] r.code = 500 -> "InternalError"
    [] r.msg = "Insufficient stock for product" -> "InsufficientStock"
    [] r.msg = "Product not found or inactive" -> "ProductUnavailable"
    [] r.msg \in {"Cannot modify order items with status",
                  "Cannot update order in current status",
                  "Cannot cancel order in current status"} -> "OrderLocked"
    [] r.msg = "Cannot make payment for order in current status" ->
         "OrderNotPayable"
    [] r.msg \in {"Payment already verified for this order",
                  "Payment already submitted and pending verification"} ->
         "DuplicatePayment"
    [] OTHER -> "ValidationError"

SumTotalPrice(items) == SumSet([it \in items |-> it.total_price], items)

\* rows of orders that are not cancelled
LiveItems == {it \in order_items : orders[it.order_id].status # "cancelled"}

\* C1: no sequence of order creations, item adds/removes and cancellations
\* makes a Product.quantity negative, batches naming one product several
\* times included.
C1_StockNeverNegative == \A p \in Products : quantity[p] >= 0

\* C2: stock conservation: for every product, quantity plus the quantities
\* held by the items of non-cancelled orders equals the initial quantity.
C2_StockConservation ==
  \A p \in Products : quantity[p] + Held(LiveItems, p) = InitialStock

\* C3: every order's total_amount is the sum of total_price over its items,
\* and each total_price is quantity * unit_price.
C3_OrderTotal ==
  \A oid \in OrderIds :
    /\ orders[oid].total_amount = SumTotalPrice(ItemsOf(oid))
    /\ \A it \in ItemsOf(oid) : it.total_price = it.quantity * it.unit_price

\* an order created with two items of different products
C3_Witness ==
  /\ resp.op = "order_post" /\ resp.code = 201
  /\ \E a, b \in ItemsOf(resp.id) :
       /\ a.product_id # b.product_id
       /\ orders[resp.id].total_amount = a.total_price + b.total_price
       /\ a.total_price > 0 /\ b.total_price > 0

\* C4: a cancel request on a pending order, by a caller who sees the order,
\* adds to every product's quantity the quantities of the order's items of
\* that product and sets the order's status to cancelled.
C4_CancelRestocks ==
  [][\A oid \in OrderIds :
       (/\ resp'.op = "order_delete" /\ resp'.id = oid
        /\ VisibleOrder(resp'.actor, oid, TRUE)
        /\ orders[oid].status = "pending")
       => /\ resp'.code = 200
          /\ orders'[oid].status = "cancelled"
          /\ \A p \in Products :
               quantity'[p] = quantity[p] + Held(ItemsOf(oid), p)]_vars

\* a cancelled order holding items of two products, every product back at
\* its initial stock
C4_Witness ==
  /\ resp.op = "order_delete" /\ resp.code = 200
  /\ orders[resp.id].status = "cancelled"
  /\ Held(ItemsOf(resp.id), "p1") > 0
  /\ Held(ItemsOf(resp.id), "p2") > 0
  /\ \A p \in Products : quantity[p] = InitialStock

\* C5: a verify call with outcome 'verified' by staff on a pending payment
\* succeeds and leaves the payment verified; an order in status pending
\* becomes confirmed with approved_by the caller, any other order keeps its
\* status.
C5_VerifyConfirms ==
  [][\A pid \in PaymentIds :
       (/\ resp'.op = "payment_verify" /\ resp'.id = pid
        /\ resp'.arg = "verified" /\ Role(resp'.actor) = "ADMIN"
        /\ PaymentRow(pid).status = "pending")
       => LET oid == PaymentRow(pid).order_id IN
          /\ resp'.code = 200
          /\ \E pm \in payments' : pm.id = pid /\ pm.status = "verified"
          /\ IF orders[oid].status = "pending"
             THEN /\ orders'[oid].status = "confirmed"
                  /\ orders'[oid].approved_by = resp'.actor
             ELSE orders'[oid].status = orders[oid].status]_vars

\* C6: the second verify call with outcome 'verified' on a payment is
\* refused with PaymentAlreadyFinalized.
C6_SecondVerifyFinalized ==
  (/\ resp.op = "payment_verify" /\ resp.arg = "verified"
   /\ Role(resp.actor) = "ADMIN" /\ resp.id \in PaymentIds
   /\ verify_calls[resp.id] >= 2)
  => ErrorKind(resp) = "PaymentAlreadyFinalized"

\* C7: of two payment submissions for one order, only one creates a Payment:
\* no order ever has two payments in a non-terminal state.
C7_OneActivePayment ==
  \A oid \in OrderIds :
    Cardinality({pm \in PaymentsOf(oid) : pm.status = "pending"}) <= 1

\* C8: once the order creations in flight have finished, the quantities they
\* reserved do not exceed the stock there was, and every product's quantity
\* is that stock minus what was reserved.
C8_NoOversell ==
  InFlight("order_post") = {}
  => \A p \in Products :
       /\ Held(order_items, p) <= InitialStock
       /\ quantity[p] = InitialStock - Held(order_items, p)

\* no upload ever inserts a row: the insert lacks the uploader
NoCustomImageRow == custom_images = {}

\* every approve call is answered 403 or 404: there is no row to approve
ApproveNeverFindsRow ==
  resp.op = "image_approve" => resp.code \in {403, 404}

\* C9: no step changes the status of an order that is delivered or
\* cancelled.
C9_TerminalStatus ==
  [][\A oid \in OrderIds :
       orders[oid].status \in {"delivered", "cancelled"}
       => orders'[oid].status = orders[oid].status]_vars

\* a batch with an item that fails validation against the stock q
HasBadItem(q, batch) ==
  \E i \in 1..Len(batch) : ItemError(q, batch[i]) # "ok"

\* C13: an order creation or an item addition whose batch has an item that
\* fails validation (missing or inactive product, quantity <= 0, more than
\* the stock) is refused and creates no Order and no OrderItem and changes
\* no Product.quantity and no total_amount.  For item additions: a refused
\* call changes nothing, and no accepted call had such a batch.
C13_AllOrNothing ==
  [][/\ resp'.op = "order_post" =>
          \A batch \in Batches :
            (HasBadItem(quantity, batch) /\ OrderPost(resp'.actor, batch, TRUE))
            => /\ resp'.code = 400
               /\ UNCHANGED <<orders, order_items, quantity>>
     /\ resp'.op = "order_patch" =>
          IF resp'.code # 200
          THEN UNCHANGED <<orders, order_items, quantity>>
          ELSE \A batch \in PatchBatches :
                 HasBadItem(quantity, batch)
                 => ~OrderPatch(resp'.actor, resp'.id, "add", batch, {})]_vars

\* a creation refused for an item asking more than the stock: no order, no
\* item, every product at its initial stock
C13_Witness ==
  /\ resp.op = "order_post" /\ resp.code = 400
  /\ resp.msg = "Insufficient stock for product"
  /\ orders = <<>> /\ order_items = {}
  /\ \A p \in Products : quantity[p] = InitialStock

\* C14: an update of an order by a caller who is neither STAFF nor ADMIN
\* leaves Order.status as it was, whatever status the payload carries.
C14_OwnerPutKeepsStatus ==
  [][\A oid \in OrderIds :
       (/\ resp'.op = "order_put" /\ resp'.id = oid
        /\ Role(resp'.actor) \notin {"STAFF", "ADMIN"})
       => orders'[oid].status = orders[oid].status]_vars

\* an owner's update carrying another status than the order's was accepted
C14_Witness ==
  /\ resp.op = "order_put" /\ resp.code = 200
  /\ Role(resp.actor) = "CUSTOMER"
  /\ resp.arg = "delivered"
  /\ orders[resp.id].status = "pending"

\* C15: a cancel request by the order's owner, who is not staff, on an order
\* in status confirmed, processing or shipped is refused and changes neither
\* the order's status nor any Product.quantity.
C15_OwnerCancelOnlyPending ==
  [][\A oid \in OrderIds :
       (/\ resp'.op = "order_delete" /\ resp'.id = oid
        /\ orders[oid].user_id = resp'.actor
        /\ Role(resp'.actor) \notin {"STAFF", "ADMIN"}
        /\ orders[oid].status \in {"confirmed", "processing", "shipped"})
       => /\ resp'.code # 200
          /\ orders'[oid].status = orders[oid].status
          /\ quantity' = quantity]_vars

\* C16: a payment submission for an order the caller sees whose status is
\* cancelled or delivered is refused with OrderNotPayable and creates no
\* Payment.
C16_OrderNotPayable ==
  [][\A oid \in OrderIds :
       (/\ resp'.op = "payment_post" /\ resp'.id = oid
        /\ VisibleOrder(resp'.actor, oid, TRUE)
        /\ orders[oid].status \in {"cancelled", "delivered"})
       => /\ ErrorKind(resp') = "OrderNotPayable"
          /\ payments' = payments]_vars

\* a submission for a delivered order was refused, and no payment exists
C16_Witness ==
  /\ resp.op = "payment_post" /\ ErrorKind(resp) = "OrderNotPayable"
  /\ resp.id \in OrderIds /\ orders[resp.id].status = "delivered"
  /\ payments = {}

\* C17: a payment submission for an order that has an active (pending or
\* verified) payment is refused with DuplicatePayment and creates nothing,
\* and no order ever has two active payments.
C17_SequentialDuplicatePayment ==
  [][\A oid \in OrderIds :
       (/\ resp'.op = "payment_post" /\ resp'.id = oid
        /\ VisibleOrder(resp'.actor, oid, TRUE)
        /\ ~NotPayable(orders[oid].status)
        /\ \E pm \in PaymentsOf(oid) : pm.status \in {"pending", "verified"})
       => /\ ErrorKind(resp') = "DuplicatePayment"
          /\ payments' = payments
          /\ Cardinality({pm \in payments' :
                            /\ pm.order_id = oid
                            /\ pm.status \in {"pending", "verified"}}) <= 1]_vars

\* C18: an item add/remove call on an order of the caller whose status is
\* outside {draft, pending} is refused with OrderLocked and leaves the
\* order's items, its total_amount and every Product.quantity unchanged.
C18_PatchLocked ==
  [][\A oid \in OrderIds :
       (/\ resp'.op = "order_patch" /\ resp'.id = oid
        /\ VisibleOrder(resp'.actor, oid, FALSE)
        /\ orders[oid].status \notin {"draft", "pending"})
       => /\ ErrorKind(resp') = "OrderLocked"
          /\ UNCHANGED <<order_items, orders, quantity>>]_vars

\* the owner's item call on a confirmed order was refused as locked
C18_Witness ==
  /\ resp.op = "order_patch" /\ ErrorKind(resp) = "OrderLocked"
  /\ resp.id \in OrderIds
  /\ orders[resp.id].user_id = resp.actor
  /\ orders[resp.id].status = "confirmed"
  /\ ItemsOf(resp.id) # {}

\* C19: a verify call with outcome 'rejected' by an admin on a pending
\* payment leaves the payment rejected and changes neither the order's
\* status nor its items nor any Product.quantity.
C19_RejectedFrame ==
  [][\A pid \in PaymentIds :
       (/\ resp'.op = "payment_verify" /\ resp'.id = pid
        /\ resp'.arg = "rejected" /\ Role(resp'.actor) = "ADMIN"
        /\ PaymentRow(pid).status = "pending")
       => /\ \E pm \in payments' : pm.id = pid /\ pm.status = "rejected"
          /\ \A oid \in OrderIds : orders'[oid].status = orders[oid].status
          /\ UNCHANGED <<order_items, quantity>>]_vars

\* C20: every step that takes an order from a status other than cancelled to
\* cancelled adds, in that step, the quantity of each of the order's items
\* to its product's stock.
C20_CancelAlwaysRestocks ==
  [][\A oid \in OrderIds :
       (orders[oid].status # "cancelled" /\ orders'[oid].status = "cancelled")
       => quantity' = RestoreStock(quantity, ItemsOf(oid))]_vars

\* the changes of Order.status the lifecycle allows
Lifecycle ==
  ({"draft"} \X {"pending"})
    \cup ({"pending"} \X {"confirmed"})
    \cup ({"confirmed", "processing"} \X {"processing", "shipped", "delivered"})
    \cup ({"pending", "confirmed", "processing", "shipped"} \X {"cancelled"})
    \cup ({"shipped", "delivered"} \X {"returned"})

\* C21: the quantity of an OrderItem is credited back to its product's stock
\* at most once.  Every item is debited once, when it is created, and
\* nothing else adds stock, so no product's quantity ever exceeds its
\* initial stock.
C21_RestockAtMostOnce == \A p \in Products : quantity[p] <= InitialStock

\* C22: every change of Order.status is a transition of the lifecycle
\* table.
C22_LifecycleTransitions ==
  [][\A oid \in OrderIds :
       orders'[oid].status # orders[oid].status
       => <<orders[oid].status, orders'[oid].status>> \in Lifecycle]_vars

\* C23: an item-add call by the owner on a pending order, for one active
\* product with a quantity above 0 and within the stock, succeeds: it
\* creates an OrderItem at the product's price, takes the quantity from the
\* stock and adds quantity * unit_price to the order's total_amount.
C23_AddItemSucceeds ==
  [][resp'.op = "order_patch" =>
       \A batch \in PatchBatches :
         (/\ Len(batch) = 1
          /\ ~HasBadItem(quantity, batch)
          /\ resp'.id \in OrderIds
          /\ orders[resp'.id].user_id = resp'.actor
          /\ orders[resp'.id].status = "pending"
          /\ OrderPatch(resp'.actor, resp'.id, "add", batch, {}))
         => LET it == batch[1] IN
            /\ resp'.code = 200
            /\ \E row \in order_items' \ order_items :
                 /\ row.order_id = resp'.id
                 /\ row.product_id = it.product_id
                 /\ row.quantity = it.quantity
                 /\ row.unit_price = price(it.product_id)
            /\ quantity'[it.product_id] = quantity[it.product_id] - it.quantity
            /\ orders'[resp'.id].total_amount =
                 orders[resp'.id].total_amount
                   + it.quantity * price(it.product_id)]_vars

\* no payment ever leaves status pending: no verify call gets as far as its
\* assignment
PaymentsStayPending == \A pm \in payments : pm.status = "pending"

\* every payment carries the total of its order: the total is snapshotted at
\* submission and no call changes it afterwards
PaymentAmountIsOrderTotal ==
  \A pm \in payments : pm.amount = orders[pm.order_id].total_amount

\* no order is ever confirmed by a verify call
VerifyNeverConfirms ==
  [][resp'.op = "payment_verify" => orders' = orders]_vars

\* C25: of two verify calls with outcome 'verified' on one payment that were
\* in flight together, one applies the transition and the other is refused
\* with PaymentAlreadyFinalized: when the later of the two finishes, the
\* payment is verified and the call either succeeded or was refused so.
C25_ConcurrentVerifyOnce ==
  [][\A r \in Procs :
       (/\ reqs[r].pc = "payment_verify"
        /\ reqs[r].status = "verified"
        /\ reqs[r].overlap
        /\ reqs'[r] = Idle
        /\ \A q \in Procs : reqs'[q].pc # "payment_verify")
       => /\ \E pm \in payments' :
               pm.id = reqs[r].pid /\ pm.status = "verified"
          /\ \/ resp'.code = 200
             \/ ErrorKind(resp') = "PaymentAlreadyFinalized"]_vars

\* C26: an upload refused for a missing order_item_id, an order item that
\* does not exist or is not the caller's, an item that already has an image
\* or an unknown product stores no file and creates no CustomImage row.
C26_RefusedUploadNoMutation ==
  [][(/\ resp'.op = "image_post"
      /\ resp'.msg \in {"Missing field: order_item_id",
                        "Order item not found",
                        "Custom image already exists for this order item",
                        "Product not found"})
     => /\ files' = files
        /\ custom_images' = custom_images]_vars

\* C27: an order is never in status pending while its customer
\* identification (customer_name and customer_phone) is incomplete: it is
\* stored as draft until an update completes both fields.
C27_NoPendingWithoutCustomer ==
  \A oid \in OrderIds :
    orders[oid].status = "pending" => orders[oid].customer_complete

\* C29: payment verification, image approval and order status edit are
\* staff-only: a call by a CUSTOMER is refused with Forbidden and changes no
\* Payment, Order or CustomImage; a call by a STAFF or ADMIN user is not
\* refused for lack of role.
C29_StaffOnly ==
  [][resp'.op \in {"payment_verify", "image_approve", "order_status_put"} =>
       /\ Role(resp'.actor) = "CUSTOMER" =>
            /\ ErrorKind(resp') = "Forbidden"
            /\ UNCHANGED <<payments, orders, custom_images>>
       /\ Role(resp'.actor) \in {"STAFF", "ADMIN"} =>
            ErrorKind(resp') # "Forbidden"]_vars

====
